---- MODULE Spec2Model ----
(***************************************************************************)
(* A model of src/rate_limiter.py: the rate-limit strategies               *)
(* (LastRequestRateLimitedRequest, DefaultRateLimitedRequest) and the      *)
(* client RateLimiter (configure_limit, request).                          *)
(*                                                                         *)
(* Time is a discrete wall clock `now` that only moves forward (Tick).     *)
(* time.time() reads it; time.sleep(d) returns once the clock has advanced *)
(* by at least d.  Caller threads execute the methods statement by         *)
(* statement at the places where they read or write shared state.          *)
(***************************************************************************)
EXTENDS Integers, Sequences, FiniteSets, TLC

\* ---------------------------------------------------------------- bounds
MaxRate == 2        \* rate limits are drawn from 0..MaxRate
MaxRetries == 3     \* retries are drawn from 0..MaxRetries
Horizon == 4        \* the clock runs from StartTime to StartTime + Horizon

Threads == {"t1", "t2"}          \* caller threads
MainThread == "t1"               \* the only caller of the sequential specification
SharedIds == {"s1"}              \* strategy instances built by callers
Ids == SharedIds \cup Threads    \* id t: the instance request() builds for thread t
Urls == {"a", "b"}
Methods == {"GET", "POST", "PUT", "DELETE"}
Verbs == {"get", "post", "put", "delete"}
Statuses == {200, 404}           \* HTTP statuses of a response object

\* time.time() at the first call: Unix time, far beyond any rate limit, so that
\* now - 0 >= rate_limit for a freshly built instance.
StartTime == MaxRate + 1
MaxTime == StartTime + Horizon

\* ---------------------------------------------------------------- values
\* Python values passed as rate_limit: None, an int, a strategy instance, or
\* something else (a str).
None == [tag |-> "none", n |-> 0, ref |-> ""]
IntVal(k) == [tag |-> "int", n |-> k, ref |-> ""]
InstVal(s) == [tag |-> "inst", n |-> 0, ref |-> s]
StrVal == [tag |-> "str", n |-> 0, ref |-> ""]

NoObj == [cls |-> "", rate_limit |-> 0, last_request_time |-> 0]

\* a variant: a new instance counts as having just let a request through
LastRequestRateLimitedRequest_StartsAtClock(rate_limit) ==
    [cls |-> "LastRequest", rate_limit |-> rate_limit, last_request_time |-> StartTime]

\* LastRequestRateLimitedRequest.__init__
LastRequestRateLimitedRequest(rate_limit) ==
    [cls |-> "LastRequest", rate_limit |-> rate_limit, last_request_time |-> 0]

\* DefaultRateLimitedRequest.__init__: keeps nothing
DefaultRateLimitedRequest ==
    [cls |-> "Default", rate_limit |-> 0, last_request_time |-> 0]

StrategyClasses == {"Default", "LastRequest"}

\* self.rate_limit_strategy(rate_limit): a call of the configured class
NewStrategy(cls, rate_limit) ==
    IF cls = "LastRequest" THEN LastRequestRateLimitedRequest(rate_limit)
    ELSE DefaultRateLimitedRequest

\* a transport result: a response object (any status) or a RequestException;
\* id is the attempt (1-based) that produced it
Response(status, i) == [kind |-> "resp", status |-> status, id |-> i]
RequestException(i) == [kind |-> "exc", status |-> 0, id |-> i]
NoOutcome == [kind |-> "", status |-> 0, id |-> 0]
SendOutcomes(i) == {Response(s, i) : s \in Statuses} \cup {RequestException(i)}

\* what a call gave its caller
NoResult == [how |-> "", val |-> NoOutcome]
Returned(o) == [how |-> "return", val |-> o]
ReturnedNone == [how |-> "return_none", val |-> NoOutcome]
Raised(e) == [how |-> "raise", val |-> e]

\* ---------------------------------------------------------------- state
VARIABLES
    now,                  \* the wall clock
    rate_limit_strategy,  \* RateLimiter.rate_limit_strategy (a class)
    endpoint_limits,      \* RateLimiter.endpoint_limits: url -> instance id
    heap,                 \* strategy instances by id
    pc,                   \* each thread's position
    loc,                  \* each thread's locals
    hist,                 \* history of each thread's current call
    lastCfg,              \* history: the last configure_limit call and how it ended
    lastSend              \* history: <<the time of the last send to lastCfg.url since
                          \* that call>>, in a run of sends without a transport failure

vars == <<now, rate_limit_strategy, endpoint_limits, heap, pc, loc, hist,
          lastCfg, lastSend>>

\* the frame of get/post/put/delete(url, **kwargs), when the call came through one
NoFacade == [verb |-> "", url |-> "", rate_limit |-> None, retries |-> 0]
NoLoc == [facade |-> NoFacade, method |-> "",
          url |-> "", rate_limit |-> None, retries |-> 0, limiter |-> "",
          retry |-> 0, current_time |-> 0, elapsed |-> 0, wake |-> 0,
          caller |-> "", result |-> NoResult]
\* outcomes: the transport's results, one per send; nwait: wait() calls made;
\* sinceSend: wait() calls made since the last send; backoffs: the backoff sleeps
\* asked for; waitedOn: the instances wait() was called on
NoHist == [outcomes |-> <<>>, nwait |-> 0, sinceSend |-> 0, backoffs |-> <<>>,
           waitedOn |-> {}]
NoCfg == [url |-> "", arg |-> None, result |-> NoResult]
Never == <<>>    \* no such send yet

\* RateLimiter.__init__: the strategy class is the constructor's argument
Init ==
    /\ now = StartTime
    /\ rate_limit_strategy \in StrategyClasses
    /\ endpoint_limits = <<>>
    /\ heap = [i \in Ids |-> NoObj]
    /\ pc = [t \in Threads |-> "idle"]
    /\ loc = [t \in Threads |-> NoLoc]
    /\ hist = [t \in Threads |-> NoHist]
    /\ lastCfg = NoCfg
    /\ lastSend = Never

\* ---------------------------------------------------------------- helpers
\* Python truthiness of a rate_limit argument (None and 0 are falsy)
Truthy(v) == ~(v.tag = "none" \/ (v.tag = "int" /\ v.n = 0))

\* RateLimiter._get_request_group: dict.get, None when absent
GetRequestGroup(limits, url) ==
    IF url \in DOMAIN limits THEN InstVal(limits[url]) ELSE None

\* a variant: lines 68-69 left out, so that limiter may stay None
ResolveLimiter_NoDefault(group, rate_limit) ==
    IF group.tag = "inst" THEN "registry"
    ELSE IF Truthy(rate_limit) THEN "percall"
    ELSE "none"

\* request, lines 63-69: which limiter the call uses
ResolveLimiter(group, rate_limit) ==
    IF group.tag = "inst" THEN "registry"
    ELSE IF Truthy(rate_limit) THEN "percall"
    ELSE "default"

\* a variant: a loop without the bound of range
RangeHasNext_Always(retry, retries) == TRUE

\* a variant: a loop whose body runs at least once
RangeHasNext_AtLeastOnce(retry, retries) == retry < retries \/ retry = 0

\* line 71: range(retries) still has an index
RangeHasNext(retry, retries) == retry < retries

\* a variant: wait() before the first attempt only
LoopBodyEntry_FirstOnly(retry) == IF retry = 0 THEN "wait" ELSE "send"

\* line 72: the loop body starts with limiter.wait()
LoopBodyEntry(retry) == "wait"

\* a variant: an error status counts as a failure too
IsRequestException_OrErrorStatus(o) == o.kind = "exc" \/ o.status >= 400

\* line 75: what the except clause catches
IsRequestException(o) == o.kind = "exc"

\* a variant: the last attempt taken one index late
IsLastAttempt_OffByOne(retry, retries) == retry = retries

\* a variant: every failure treated as the last
IsLastAttempt_Always(retry, retries) == TRUE

\* line 76
IsLastAttempt(retry, retries) == retry = retries - 1

\* a variant: 2 * retry for 2 ** retry
BackoffDelay_Product(retry) == 2 * retry

\* line 78
BackoffDelay(retry) == 2 ^ retry

\* a variant: sleeps also when exactly rate_limit has passed
NeedsSleep_OrEqual(elapsed, rate_limit) == elapsed <= rate_limit

\* line 31
NeedsSleep(elapsed, rate_limit) == elapsed < rate_limit

\* a variant: the sleep one unit short
SleepDuration_Short(elapsed, rate_limit) == rate_limit - elapsed - 1

\* line 32
SleepDuration(elapsed, rate_limit) == rate_limit - elapsed

\* ---------------------------------------------------------------- actions
\* the clock moves on
Tick ==
    /\ now < MaxTime
    /\ now' = now + 1
    /\ UNCHANGED <<rate_limit_strategy, endpoint_limits, heap, pc, loc, hist,
                   lastCfg, lastSend>>

\* a caller builds LastRequestRateLimitedRequest(rate_limit=d)
Construct(s, d) ==
    /\ heap[s] = NoObj
    /\ heap' = [heap EXCEPT ![s] = LastRequestRateLimitedRequest(d)]
    /\ UNCHANGED <<now, rate_limit_strategy, endpoint_limits, pc, loc, hist,
                   lastCfg, lastSend>>

\* RateLimiter.configure_limit(url, rate_limit): builds or takes a limiter into
\* a local and returns; endpoint_limits is not assigned.
ConfigureLimit(t, url, rate_limit) ==
    /\ pc[t] = "idle"
    /\ rate_limit.tag = "inst" => heap[rate_limit.ref] # NoObj
    /\ LET limiter ==
              IF rate_limit.tag = "int"
              THEN NewStrategy(rate_limit_strategy, rate_limit.n)
              ELSE IF rate_limit.tag = "inst" THEN heap[rate_limit.ref]
              ELSE NoObj
       IN  /\ endpoint_limits' = endpoint_limits
           /\ lastCfg' = [url |-> url, arg |-> rate_limit, result |-> ReturnedNone]
           /\ lastSend' = Never
    /\ UNCHANGED <<now, rate_limit_strategy, heap, pc, loc, hist>>

\* request(method, url, rate_limit, retries) is entered: lines 63-69
RequestEnter(t, method, url, rate_limit, retries) ==
    /\ LET group == GetRequestGroup(endpoint_limits, url)
           how == ResolveLimiter(group, rate_limit)
       IN  /\ loc' = [loc EXCEPT ![t] =
                        [loc[t] EXCEPT !.method = method, !.url = url,
                                       !.rate_limit = rate_limit,
                                       !.retries = retries,
                                       !.limiter = IF how = "registry" THEN group.ref
                                                   ELSE IF how \in {"percall", "default"} THEN t
                                                   ELSE "",
                                       !.caller = "request"]]
           /\ heap' = IF how = "percall"
                      THEN [heap EXCEPT ![t] = NewStrategy(rate_limit_strategy, rate_limit.n)]
                      ELSE IF how = "default"
                      THEN [heap EXCEPT ![t] = DefaultRateLimitedRequest]
                      ELSE heap
    /\ hist' = [hist EXCEPT ![t] = NoHist]
    /\ pc' = [pc EXCEPT ![t] = "for"]
    /\ UNCHANGED <<now, rate_limit_strategy, endpoint_limits, lastCfg, lastSend>>

\* a caller calls request(method, url, rate_limit, retries)
Request(t, method, url, rate_limit, retries) ==
    /\ pc[t] = "idle"
    /\ RequestEnter(t, method, url, rate_limit, retries)

\* a caller calls get/post/put/delete(url, rate_limit=.., retries=..)
CallVerb(t, verb, url, rate_limit, retries) ==
    /\ pc[t] = "idle"
    /\ loc' = [loc EXCEPT ![t] =
                 [NoLoc EXCEPT !.facade = [verb |-> verb, url |-> url,
                                           rate_limit |-> rate_limit,
                                           retries |-> retries]]]
    /\ pc' = [pc EXCEPT ![t] = "facade"]
    /\ UNCHANGED <<now, rate_limit_strategy, endpoint_limits, heap, hist,
                   lastCfg, lastSend>>

InVerb(t, verb) == pc[t] = "facade" /\ loc[t].facade.verb = verb

\* line 82: return self.request('GET', url, **kwargs)
Get(t) ==
    /\ InVerb(t, "get")
    /\ RequestEnter(t, "GET", loc[t].facade.url, loc[t].facade.rate_limit,
                    loc[t].facade.retries)

\* a variant: post forwards with the method of get
Post_AsGet(t) ==
    /\ InVerb(t, "post")
    /\ RequestEnter(t, "GET", loc[t].facade.url, loc[t].facade.rate_limit,
                    loc[t].facade.retries)

\* line 85: return self.request('POST', url, **kwargs)
Post(t) ==
    /\ InVerb(t, "post")
    /\ RequestEnter(t, "POST", loc[t].facade.url, loc[t].facade.rate_limit,
                    loc[t].facade.retries)

\* line 88: return self.request('PUT', url, **kwargs)
Put(t) ==
    /\ InVerb(t, "put")
    /\ RequestEnter(t, "PUT", loc[t].facade.url, loc[t].facade.rate_limit,
                    loc[t].facade.retries)

\* line 91: return self.request('DELETE', url, **kwargs)
Delete(t) ==
    /\ InVerb(t, "delete")
    /\ RequestEnter(t, "DELETE", loc[t].facade.url, loc[t].facade.rate_limit,
                    loc[t].facade.retries)

\* line 71: the next index of range(retries), or the end of the function
For(t) ==
    /\ pc[t] = "for"
    /\ IF RangeHasNext(loc[t].retry, loc[t].retries)
       THEN /\ pc' = [pc EXCEPT ![t] = LoopBodyEntry(loc[t].retry)]
            /\ loc' = loc
       ELSE /\ pc' = [pc EXCEPT ![t] = "done"]
            /\ loc' = [loc EXCEPT ![t].result = ReturnedNone]
    /\ UNCHANGED <<now, rate_limit_strategy, endpoint_limits, heap, hist,
                   lastCfg, lastSend>>

\* a caller calls s.wait() on an instance it built
CallWait(t, s) ==
    /\ pc[t] = "idle"
    /\ heap[s] # NoObj
    /\ loc' = [loc EXCEPT ![t] = [NoLoc EXCEPT !.limiter = s, !.caller = "direct"]]
    /\ hist' = [hist EXCEPT ![t] = NoHist]
    /\ pc' = [pc EXCEPT ![t] = "wait"]
    /\ UNCHANGED <<now, rate_limit_strategy, endpoint_limits, heap,
                   lastCfg, lastSend>>

AfterWait(t) == IF loc[t].caller = "request" THEN "send" ELSE "done"

\* limiter.wait() is entered.  DefaultRateLimitedRequest.wait returns at once;
\* LastRequestRateLimitedRequest.wait reads the clock (line 29).
WaitEnter(t) ==
    /\ pc[t] = "wait"
    /\ hist' = [hist EXCEPT ![t].nwait = @ + 1, ![t].sinceSend = @ + 1,
                            ![t].waitedOn = @ \cup {loc[t].limiter}]
    /\ IF heap[loc[t].limiter].cls = "LastRequest"
       THEN /\ loc' = [loc EXCEPT ![t].current_time = now]
            /\ pc' = [pc EXCEPT ![t] = "wait_30"]
       ELSE /\ loc' = loc
            /\ pc' = [pc EXCEPT ![t] = AfterWait(t)]
    /\ UNCHANGED <<now, rate_limit_strategy, endpoint_limits, heap,
                   lastCfg, lastSend>>

\* lines 30-32: elapsed from the shared last_request_time, then sleep or not
WaitElapsed(t) ==
    /\ pc[t] = "wait_30"
    /\ LET self == heap[loc[t].limiter]
           elapsed == loc[t].current_time - self.last_request_time
       IN  IF NeedsSleep(elapsed, self.rate_limit)
           THEN /\ loc' = [loc EXCEPT ![t].elapsed = elapsed,
                                      ![t].wake = now + SleepDuration(elapsed, self.rate_limit)]
                /\ pc' = [pc EXCEPT ![t] = "wait_32"]
           ELSE /\ loc' = [loc EXCEPT ![t].elapsed = elapsed]
                /\ pc' = [pc EXCEPT ![t] = "wait_33"]
    /\ UNCHANGED <<now, rate_limit_strategy, endpoint_limits, heap, hist,
                   lastCfg, lastSend>>

\* line 32: time.sleep returns, not before the time asked for has passed
WaitSleepReturn(t) ==
    /\ pc[t] = "wait_32"
    /\ now >= loc[t].wake
    /\ pc' = [pc EXCEPT ![t] = "wait_33"]
    /\ UNCHANGED <<now, rate_limit_strategy, endpoint_limits, heap, loc, hist,
                   lastCfg, lastSend>>

\* a variant: last_request_time kept by the class, one for all instances
WaitUpdate_AllInstances(t) ==
    /\ pc[t] = "wait_33"
    /\ heap' = [i \in Ids |-> IF heap[i].cls = "LastRequest"
                               THEN [heap[i] EXCEPT !.last_request_time = now]
                               ELSE heap[i]]
    /\ pc' = [pc EXCEPT ![t] = AfterWait(t)]
    /\ UNCHANGED <<now, rate_limit_strategy, endpoint_limits, loc, hist,
                   lastCfg, lastSend>>

\* line 33: last_request_time = time.time(); wait() is complete
WaitUpdate(t) ==
    /\ pc[t] = "wait_33"
    /\ heap' = [heap EXCEPT ![loc[t].limiter].last_request_time = now]
    /\ pc' = [pc EXCEPT ![t] = AfterWait(t)]
    /\ UNCHANGED <<now, rate_limit_strategy, endpoint_limits, loc, hist,
                   lastCfg, lastSend>>

\* lines 73-78: the transport call and what follows from its result
Send(t) ==
    /\ pc[t] = "send"
    /\ \E o \in SendOutcomes(Len(hist[t].outcomes) + 1) :
        /\ hist' = [hist EXCEPT ![t].outcomes = Append(@, o), ![t].sinceSend = 0,
                                ![t].backoffs =
                                    IF IsRequestException(o)
                                       /\ ~IsLastAttempt(loc[t].retry, loc[t].retries)
                                    THEN Append(@, BackoffDelay(loc[t].retry)) ELSE @]
        /\ lastSend' = IF loc[t].url # lastCfg.url THEN lastSend
                        ELSE IF o.kind = "exc" THEN Never ELSE <<now>>
        /\ IF ~IsRequestException(o)
           THEN /\ loc' = [loc EXCEPT ![t].result = Returned(o)]
                /\ pc' = [pc EXCEPT ![t] = "done"]
           ELSE IF IsLastAttempt(loc[t].retry, loc[t].retries)
           THEN /\ loc' = [loc EXCEPT ![t].result = Raised(o)]
                /\ pc' = [pc EXCEPT ![t] = "done"]
           ELSE /\ loc' = [loc EXCEPT ![t].wake = now + BackoffDelay(loc[t].retry)]
                /\ pc' = [pc EXCEPT ![t] = "backoff"]
    /\ UNCHANGED <<now, rate_limit_strategy, endpoint_limits, heap, lastCfg>>

\* line 78: the backoff sleep returns; the loop takes its next index
BackoffReturn(t) ==
    /\ pc[t] = "backoff"
    /\ now >= loc[t].wake
    /\ loc' = [loc EXCEPT ![t].retry = @ + 1]
    /\ pc' = [pc EXCEPT ![t] = "for"]
    /\ UNCHANGED <<now, rate_limit_strategy, endpoint_limits, heap, hist,
                   lastCfg, lastSend>>

\* the call is over: its locals, and the instance request() built, are dropped
Finish(t) ==
    /\ pc[t] = "done"
    /\ pc' = [pc EXCEPT ![t] = "idle"]
    /\ loc' = [loc EXCEPT ![t] = NoLoc]
    /\ hist' = [hist EXCEPT ![t] = NoHist]
    /\ heap' = [heap EXCEPT ![t] = NoObj]
    /\ UNCHANGED <<now, rate_limit_strategy, endpoint_limits, lastCfg, lastSend>>

\* ---------------------------------------------------------------- inputs
RateArgs == {None} \cup {IntVal(k) : k \in 0..MaxRate}
ConfigArgs == {IntVal(k) : k \in 0..MaxRate} \cup {InstVal(s) : s \in SharedIds}
                \cup {StrVal}
RetryArgs == -1..MaxRetries

\* every other thread is idle
Alone(t) == \A o \in Threads \ {t} : pc[o] = "idle"

\* the statements of wait()
WaitStep(t) ==
    \/ WaitEnter(t)
    \/ WaitElapsed(t)
    \/ WaitSleepReturn(t)
    \/ WaitUpdate(t)

\* a variant: a sleeping caller holds every other caller's request up
RequestStep_Exclusive(t) ==
    /\ \A o \in Threads \ {t} : pc[o] \notin {"wait_32", "backoff"}
    /\ (For(t) \/ Send(t) \/ BackoffReturn(t))

\* the statements of request()
RequestStep(t) ==
    \/ For(t)
    \/ Send(t)
    \/ BackoffReturn(t)

\* The client and one caller, one call at a time.  The caller-built instance
\* is only ever an argument of configure_limit here, so one interval is enough;
\* the method is only handed on to the transport, so one method is enough.
Next ==
    \/ Tick
    \/ \E s \in SharedIds : Construct(s, MaxRate)
    \/ \E u \in Urls, a \in ConfigArgs : ConfigureLimit(MainThread, u, a)
    \/ \E u \in Urls, r \in RateArgs, n \in RetryArgs : Request(MainThread, "GET", u, r, n)
    \/ RequestStep(MainThread)
    \/ WaitStep(MainThread)
    \/ Finish(MainThread)

Spec == Init /\ [][Next]_vars

\* Strategy instances used directly, their wait() calls one after another
\* (from any thread, never two at a time).
NextWait ==
    \/ Tick
    \/ \E s \in SharedIds, d \in 0..MaxRate : Construct(s, d)
    \/ \E t \in Threads, s \in SharedIds : Alone(t) /\ CallWait(t, s)
    \/ \E t \in Threads : WaitStep(t)
    \/ \E t \in Threads : Finish(t)

SpecWait == Init /\ [][NextWait]_vars

\* Strategy instances used directly by concurrent callers.
NextConc ==
    \/ Tick
    \/ \E s \in SharedIds, d \in 0..MaxRate : Construct(s, d)
    \/ \E t \in Threads, s \in SharedIds : CallWait(t, s)
    \/ \E t \in Threads : WaitStep(t)
    \/ \E t \in Threads : Finish(t)

SpecConc == Init /\ [][NextConc]_vars

\* The facade: one caller calls get/post/put/delete, or request with any method.
NextFacade ==
    \/ Tick
    \/ \E v \in Verbs, u \in Urls, r \in RateArgs, n \in RetryArgs :
          CallVerb(MainThread, v, u, r, n)
    \/ Get(MainThread)
    \/ Post(MainThread)
    \/ Put(MainThread)
    \/ Delete(MainThread)
    \/ \E m \in Methods, u \in Urls, r \in RateArgs, n \in RetryArgs :
          Request(MainThread, m, u, r, n)
    \/ RequestStep(MainThread)
    \/ WaitStep(MainThread)
    \/ Finish(MainThread)

SpecFacade == Init /\ [][NextFacade]_vars

\* The client shared by two threads, each calling request for an endpoint of its
\* own; the second thread's requests are single attempts.
OwnUrl(t) == IF t = MainThread THEN "a" ELSE "b"
OwnRetryArgs(t) == IF t = MainThread THEN RetryArgs ELSE {1}

NextRequests ==
    \/ Tick
    \/ \E t \in Threads, r \in RateArgs :
          \E n \in OwnRetryArgs(t) : Request(t, "GET", OwnUrl(t), r, n)
    \/ \E t \in Threads : RequestStep(t)
    \/ \E t \in Threads : WaitStep(t)
    \/ \E t \in Threads : Finish(t)

SpecRequests == Init /\ [][NextRequests]_vars

\* ---------------------------------------------------------------- claims
InRequest(t) == loc[t].caller = "request"
AllFailed(t) == \A k \in 1..Len(hist[t].outcomes) : hist[t].outcomes[k].kind = "exc"

\* C1: with retries = N >= 1 and a transport that fails on every attempt,
\* request never sends more than N times, and when it ends it has sent exactly
\* N times and raises to the caller the transport exception of the last attempt.
C1_AlwaysFailingExhaustsRetries ==
    \A t \in Threads :
        (InRequest(t) /\ loc[t].retries >= 1 /\ AllFailed(t)) =>
            /\ Len(hist[t].outcomes) <= loc[t].retries
            /\ pc[t] = "done" =>
                /\ Len(hist[t].outcomes) = loc[t].retries
                /\ loc[t].result = Raised(hist[t].outcomes[loc[t].retries])
                /\ loc[t].result.val = RequestException(loc[t].retries)

C1_Witness ==
    \E t \in Threads :
        /\ InRequest(t) /\ pc[t] = "done" /\ loc[t].retries = 3
        /\ AllFailed(t) /\ Len(hist[t].outcomes) = 3
        /\ loc[t].result.how = "raise"

\* C2: if the transport fails on attempts 1..k-1 and succeeds on attempt k <= N,
\* request ends at that send: it has sent exactly k times, returns the response of
\* attempt k, and a failure reaches the caller only when all N attempts failed.
C2_FirstSuccessReturned ==
    \A t \in Threads :
        InRequest(t) =>
            /\ \A k \in 1..Len(hist[t].outcomes) :
                 hist[t].outcomes[k].kind = "resp" =>
                    /\ k <= loc[t].retries
                    /\ Len(hist[t].outcomes) = k
                    /\ pc[t] = "done"
                    /\ loc[t].result = Returned(hist[t].outcomes[k])
                    /\ loc[t].result.val.id = k
            /\ loc[t].result.how = "raise" =>
                 /\ AllFailed(t)
                 /\ Len(hist[t].outcomes) = loc[t].retries

C2_Witness ==
    \E t \in Threads :
        /\ InRequest(t) /\ pc[t] = "done" /\ loc[t].retries = 3
        /\ Len(hist[t].outcomes) = 2
        /\ hist[t].outcomes[1].kind = "exc"
        /\ loc[t].result = Returned(hist[t].outcomes[2])

\* a step in which thread t completes a wait() (line 33)
Completes(t) == pc[t] = "wait_33" /\ pc'[t] # "wait_33"

\* the instance has completed a wait() before (the clock is above 0)
HasCompleted(s) == heap[s].last_request_time # 0

\* each wait() completion on an instance with a positive interval comes at least
\* that interval after the instance's previous completion
SpacedCompletion(t) ==
    LET s == loc[t].limiter IN
    (Completes(t) /\ HasCompleted(s) /\ heap[s].rate_limit > 0) =>
        heap'[s].last_request_time - heap[s].last_request_time >= heap[s].rate_limit

\* C3: when the wait() calls on one LastRequestRateLimitedRequest instance with
\* rate_limit > 0 come one after another, every completion is at least rate_limit
\* after the previous completion on that instance.
C3_SequentialWaitsSpaced == [][\A t \in Threads : SpacedCompletion(t)]_vars

\* a second wait() on an instance has slept and is complete
C3_Witness ==
    \E t \in Threads :
        /\ pc[t] = "done" /\ loc[t].caller = "direct"
        /\ heap[loc[t].limiter].rate_limit > 0
        /\ loc[t].elapsed < heap[loc[t].limiter].rate_limit
        /\ loc[t].elapsed >= 0
        /\ heap[loc[t].limiter].last_request_time >= loc[t].wake

\* C4: for any interleaving of callers executing wait() on one instance with
\* rate_limit > 0, no completion is less than rate_limit after the previous
\* completion on that instance.
C4_ConcurrentWaitsSpaced ==
    [][\A t \in Threads :
          LET s == loc[t].limiter IN
          (pc[t] = "wait_33" /\ pc'[t] # "wait_33"
             /\ heap[s].rate_limit > 0 /\ heap[s].last_request_time > 0) =>
              heap'[s].last_request_time >= heap[s].last_request_time + heap[s].rate_limit]_vars

\* C5: after configure_limit(url, n) with an int n, _get_request_group(url) is an
\* instance of the client's strategy class with rate_limit n; after
\* configure_limit(url, s) with an instance s, it is s itself.
C5_ConfigureThenResolve ==
    lastCfg.url # "" =>
        LET group == GetRequestGroup(endpoint_limits, lastCfg.url) IN
        /\ lastCfg.arg.tag = "int" =>
              /\ group.tag = "inst"
              /\ heap[group.ref].cls = rate_limit_strategy
              /\ heap[group.ref].rate_limit = lastCfg.arg.n
        /\ lastCfg.arg.tag = "inst" => group = lastCfg.arg

\* C6: configure_limit with a rate_limit that is neither an int nor a strategy
\* instance ends by raising (InvalidConfigurationError) to its caller.
C6_BadConfigurationRaises ==
    (lastCfg.url # "" /\ lastCfg.arg.tag \notin {"int", "inst"}) =>
        lastCfg.result.how = "raise"

\* C7: every wait of a request is made on the registry's instance for its url
\* when there is one (and then no strategy is built from a per-call rate_limit);
\* on an instance of the client's strategy class built from the per-call
\* rate_limit when there is no registry entry and a rate_limit was passed; and
\* on the no-op default only when there is neither.
C7_ResolutionPrecedence ==
    \A t \in Threads :
        (InRequest(t) /\ hist[t].nwait >= 1) =>
            LET group == GetRequestGroup(endpoint_limits, loc[t].url)
                used == heap[loc[t].limiter]
            IN
            /\ group.tag = "inst" => (loc[t].limiter = group.ref /\ heap[t] = NoObj)
            /\ (group = None /\ loc[t].rate_limit # None) =>
                  /\ used.cls = rate_limit_strategy
                  /\ used.cls = "LastRequest" => used.rate_limit = loc[t].rate_limit.n
            /\ (group = None /\ loc[t].rate_limit = None) => used.cls = "Default"

\* C8: after configure_limit(url, d) with d > 0, two consecutive sends to url
\* (of requests the transport does not fail) are at least d apart.
C8_ConfiguredSendsSpaced ==
    [][\A t \in Threads :
          (pc[t] = "send" /\ pc'[t] # "send" /\ loc[t].url = lastCfg.url
             /\ lastCfg.arg.tag = "int" /\ lastCfg.arg.n > 0
             /\ lastSend # Never /\ lastSend' # Never) =>
              lastSend'[1] - lastSend[1] >= lastCfg.arg.n]_vars

\* C9: a response object with an error status is a success: the request ends at
\* that send with that response returned, nothing raised and no backoff sleep;
\* when it is the first result, after exactly one send.
C9_ErrorStatusIsSuccess ==
    \A t \in Threads :
        InRequest(t) =>
            \A k \in 1..Len(hist[t].outcomes) :
                LET o == hist[t].outcomes[k] IN
                (o.kind = "resp" /\ o.status >= 400) =>
                    /\ pc[t] = "done"
                    /\ loc[t].result = Returned(o)
                    /\ Len(hist[t].outcomes) = k
                    /\ Len(hist[t].backoffs) = k - 1
                    /\ loc[t].retry = k - 1

C9_Witness ==
    \E t \in Threads :
        /\ InRequest(t) /\ pc[t] = "done" /\ loc[t].retries = 3
        /\ hist[t].outcomes = <<Response(404, 1)>>
        /\ loc[t].result = Returned(Response(404, 1))
        /\ hist[t].backoffs = <<>>

\* C10: within a request every send comes after exactly one wait() call made
\* since the previous send, so between attempts the wait() calls equal the sends.
C10_OneWaitPerSend ==
    \A t \in Threads :
        InRequest(t) =>
            /\ hist[t].sinceSend <= 1
            /\ pc[t] = "send" => hist[t].sinceSend = 1
            /\ pc[t] \in {"for", "backoff", "done"} =>
                  (hist[t].sinceSend = 0 /\ hist[t].nwait = Len(hist[t].outcomes))

\* a retry is about to send, after its own wait() on a LastRequest instance
C10_Witness ==
    \E t \in Threads :
        /\ InRequest(t) /\ pc[t] = "send"
        /\ Len(hist[t].outcomes) = 2 /\ hist[t].nwait = 3
        /\ heap[loc[t].limiter].cls = "LastRequest"

RECURSIVE SumSeq(_)
SumSeq(q) == IF q = <<>> THEN 0 ELSE q[1] + SumSeq(Tail(q))

\* C11: the j-th backoff sleep of a request (after the failure of attempt j-1,
\* counted from 0) is asked for 2^(j-1) time units; there is one for each failed
\* attempt but the last; none after a success; with every attempt failing and
\* retries = N the sleeps sum to 2^(N-1) - 1.
C11_BackoffSchedule ==
    \A t \in Threads :
        InRequest(t) =>
            LET sends == Len(hist[t].outcomes)
                sleeps == hist[t].backoffs
            IN
            /\ \A j \in 1..Len(sleeps) : sleeps[j] = 2 ^ (j - 1)
            /\ pc[t] # "done" => Len(sleeps) = sends
            /\ pc[t] = "backoff" => (sends = loc[t].retry + 1 /\ sends < loc[t].retries)
            /\ (pc[t] = "done" /\ sends >= 1) => Len(sleeps) = sends - 1
            /\ sends = 0 => sleeps = <<>>
            /\ (pc[t] = "done" /\ loc[t].retries >= 1 /\ AllFailed(t)) =>
                  SumSeq(sleeps) = 2 ^ (loc[t].retries - 1) - 1

C11_Witness ==
    \E t \in Threads :
        /\ InRequest(t) /\ pc[t] = "done" /\ loc[t].retries = 3
        /\ loc[t].result.how = "raise"
        /\ hist[t].backoffs = <<1, 2>>

\* C12: a call that came through get/post/put/delete is inside request with the
\* method 'GET'/'POST'/'PUT'/'DELETE' of its verb and with the url, rate_limit and
\* retries the verb was called with; from there on it is request that runs.
C12_FacadeForwards ==
    \A t \in Threads :
        LET f == loc[t].facade IN
        /\ (f.verb # "" /\ pc[t] # "facade") =>
              /\ InRequest(t)
              /\ loc[t].method = (CASE f.verb = "get" -> "GET"
                                    [] f.verb = "post" -> "POST"
                                    [] f.verb = "put" -> "PUT"
                                    [] f.verb = "delete" -> "DELETE")
              /\ loc[t].url = f.url
              /\ loc[t].rate_limit = f.rate_limit
              /\ loc[t].retries = f.retries
        /\ pc[t] = "facade" =>
              (hist[t] = NoHist /\ loc[t] = [NoLoc EXCEPT !.facade = f])

C12_Witness ==
    \E t \in Threads :
        /\ pc[t] = "done" /\ loc[t].facade.verb = "delete"
        /\ loc[t].method = "DELETE" /\ loc[t].retries = 2
        /\ loc[t].rate_limit = IntVal(1)
        /\ loc[t].result = Returned(Response(200, 2))

\* C13: a request has exactly one strategy instance from its entry on, before
\* any wait, and every wait() of the request is called on that instance.
C13_OneStrategyPerRequest ==
    \A t \in Threads :
        InRequest(t) =>
            /\ loc[t].limiter \in Ids
            /\ heap[loc[t].limiter] # NoObj
            /\ hist[t].waitedOn \subseteq {loc[t].limiter}
            /\ hist[t].nwait >= 1 => hist[t].waitedOn = {loc[t].limiter}

C13_Witness ==
    \E t \in Threads :
        /\ InRequest(t) /\ hist[t].nwait = 3
        /\ hist[t].waitedOn = {loc[t].limiter}
        /\ heap[loc[t].limiter].cls = "LastRequest"

\* the call has a per-call rate_limit and its url has no registry entry
PerCall(t) ==
    /\ InRequest(t)
    /\ Truthy(loc[t].rate_limit)
    /\ loc[t].url \notin DOMAIN endpoint_limits

\* the step in which thread t enters request
EntersRequest(t) == ~InRequest(t) /\ InRequest(t)'

\* C14: no step of a request changes endpoint_limits; a request with a per-call
\* rate_limit to a url without registry entry starts with an instance of its own,
\* of the client's strategy class, built from that rate_limit with
\* last_request_time = 0 whatever earlier calls did, and no other instance is
\* touched by its entry; the first wait() of such a call never sleeps.
C14_PerCallStrategyIsFresh ==
    [][/\ endpoint_limits' = endpoint_limits
       /\ \A t \in Threads :
            /\ (EntersRequest(t) /\ PerCall(t)') =>
                  /\ loc'[t].limiter = t
                  /\ heap'[t] = NewStrategy(rate_limit_strategy, loc'[t].rate_limit.n)
                  /\ heap'[t].last_request_time = 0
                  /\ \A i \in Ids \ {t} : heap'[i] = heap[i]
            /\ (PerCall(t) /\ hist[t].nwait = 1) => pc'[t] # "wait_32"
      ]_vars

C14_Witness ==
    \E t \in Threads :
        /\ PerCall(t) /\ pc[t] = "send" /\ hist[t].nwait = 1
        /\ heap[loc[t].limiter] =
              [cls |-> "LastRequest", rate_limit |-> MaxRate, last_request_time |-> now]
        /\ now > StartTime

\* C15: wait() of LastRequestRateLimitedRequest takes elapsed = the clock it read
\* minus last_request_time; when elapsed < rate_limit it sleeps, for exactly
\* rate_limit - elapsed > 0, and is not back before that has passed; otherwise it
\* does not sleep; either way it ends by setting last_request_time to the clock
\* as it is then, which is never less than the value it had.
C15_WaitSleepsTheRemainder ==
    [][\A t \in Threads :
        LET self == heap[loc[t].limiter] IN
        /\ (pc[t] = "wait_30" /\ pc'[t] # "wait_30") =>
              LET elapsed == loc[t].current_time - self.last_request_time IN
              /\ loc'[t].elapsed = elapsed
              /\ IF elapsed < self.rate_limit
                 THEN /\ pc'[t] = "wait_32"
                      /\ loc'[t].wake - now = self.rate_limit - elapsed
                      /\ loc'[t].wake > now
                 ELSE pc'[t] = "wait_33"
        /\ (pc[t] = "wait_32" /\ pc'[t] # "wait_32") =>
              (pc'[t] = "wait_33" /\ now >= loc[t].wake)
        /\ (pc[t] = "wait_33" /\ pc'[t] # "wait_33") =>
              /\ heap'[loc[t].limiter].last_request_time = now
              /\ heap'[loc[t].limiter].last_request_time >= self.last_request_time
              /\ pc'[t] \in {"send", "done"}
        /\ (pc[t] \in {"wait_30", "wait_32"}) =>
              heap'[loc[t].limiter] = heap[loc[t].limiter]
      ]_vars

C15_Witness ==
    \E t \in Threads :
        /\ pc[t] = "wait_33" /\ loc[t].elapsed = 1
        /\ heap[loc[t].limiter].rate_limit = 2
        /\ loc[t].wake = loc[t].current_time + 1
        /\ now >= loc[t].wake
        /\ heap[loc[t].limiter].last_request_time = loc[t].current_time - 1

\* thread t is asleep: in the sleep of wait() or in a backoff sleep
Suspended(t) == pc[t] \in {"wait_32", "backoff"} /\ now < loc[t].wake

\* the next statement of thread o's request can be taken now
CanProceed(o) ==
    CASE pc[o] \in {"for", "send"} -> ENABLED RequestStep(o)
      [] pc[o] \in {"wait", "wait_30", "wait_33"} -> ENABLED WaitStep(o)
      [] pc[o] = "wait_32" -> (now >= loc[o].wake => ENABLED WaitStep(o))
      [] pc[o] = "backoff" -> (now >= loc[o].wake => ENABLED RequestStep(o))
      [] pc[o] = "done" -> ENABLED Finish(o)
      [] OTHER -> TRUE

\* C16: while one caller is asleep in wait() or in a backoff sleep, a request of
\* another caller on the same client, to another endpoint and so with another
\* strategy instance, can take its next statement, whichever it is (only its
\* own sleeps hold it up), and the caller asleep is the only one a sleep holds.
C16_SleepsSuspendOnlyTheCaller ==
    \A t \in Threads, o \in Threads :
        (t # o /\ Suspended(t) /\ InRequest(t) /\ InRequest(o)
              /\ loc[o].limiter # loc[t].limiter) =>
            CanProceed(o)

C16_Witness ==
    \E t \in Threads, o \in Threads :
        /\ t # o /\ InRequest(t) /\ InRequest(o)
        /\ pc[t] = "backoff" /\ loc[t].retry = 1 /\ now = loc[t].wake - 1
        /\ pc[o] = "done" /\ loc[o].result.how = "return" /\ hist[o].nwait = 1
        /\ loc[o].limiter # loc[t].limiter
        /\ heap[loc[o].limiter].cls = "LastRequest"
        /\ heap[loc[o].limiter].last_request_time = now

\* C17: the state of an existing strategy instance changes only in the last
\* statement of a wait() called on that instance, and only in its
\* last_request_time; that step changes no other instance, so a request changes
\* at most the one instance it resolved and never one registered for, or used
\* by a request to, another url; a step of one caller changes no other caller's
\* position or locals.
C17_StrategyStateIsolated ==
    [][/\ \A i \in Ids :
            (heap[i] # NoObj /\ heap'[i] # NoObj /\ heap'[i] # heap[i]) =>
                /\ \E t \in Threads : Completes(t) /\ loc[t].limiter = i
                /\ heap'[i] = [heap[i] EXCEPT !.last_request_time = now]
                /\ \A j \in Ids \ {i} : heap'[j] = heap[j]
       /\ \A u \in DOMAIN endpoint_limits, t \in Threads :
            (InRequest(t) /\ loc[t].url # u /\ pc'[t] # pc[t]) =>
                heap'[endpoint_limits[u]] = heap[endpoint_limits[u]]
       /\ \A t \in Threads, o \in Threads :
            (o # t /\ pc'[t] # pc[t]) =>
                (pc'[o] = pc[o] /\ loc'[o] = loc[o] /\ hist'[o] = hist[o]
                 /\ (InRequest(o) => heap'[loc[o].limiter] = heap[loc[o].limiter]))
      ]_vars

C17_Witness ==
    \E t \in Threads, o \in Threads :
        /\ InRequest(t) /\ InRequest(o) /\ loc[t].url # loc[o].url
        /\ hist[t].nwait = 2 /\ pc[t] = "send"
        /\ heap[loc[t].limiter].cls = "LastRequest"
        /\ heap[loc[t].limiter].last_request_time = now
        /\ pc[o] = "wait_30" /\ loc[o].current_time < now
        /\ heap[loc[o].limiter].cls = "LastRequest"
        /\ heap[loc[o].limiter].last_request_time = 0

Max(a, b) == IF a >= b THEN a ELSE b

\* the statements of one loop iteration, in order, counted down to its end
StepsLeft(p) ==
    CASE p = "for" -> 6
      [] p = "wait" -> 5
      [] p = "wait_30" -> 4
      [] p = "wait_32" -> 3
      [] p = "wait_33" -> 2
      [] p = "send" -> 1
      [] OTHER -> 0

\* a measure of what is left of thread t's request: 0 when it is over
Rank(t) ==
    IF pc[t] = "done" THEN 0
    ELSE 1 + 7 * Max(loc[t].retries - loc[t].retry, 0) + StepsLeft(pc[t])

\* the sends and backoff sleeps of thread t's request are within the retry bound
WithinRetries(t) ==
    /\ Len(hist[t].outcomes) <= Max(loc[t].retries, 0)
    /\ Len(hist[t].backoffs) <= Max(loc[t].retries - 1, 0)
    /\ loc[t].retry <= Max(loc[t].retries - 1, 0)
    /\ Rank(t) >= 0
    /\ (pc[t] = "done" /\ loc[t].retries >= 1) =>
          \/ loc[t].result.how = "return" /\ loc[t].result.val.kind = "resp"
          \/ loc[t].result.how = "raise" /\ loc[t].result.val.kind = "exc"

\* C18: a request sends at most `retries` times and sleeps in backoff at most
\* retries - 1 times; every statement it executes lowers a natural-number
\* measure that is 0 exactly when the call is over, so no path loops beyond the
\* retry bound; with retries >= 1 the call ends returning a response or raising.
C18_RequestTerminates ==
    [][\A t \in Threads :
        /\ InRequest(t) => WithinRetries(t)
        /\ InRequest(t)' => WithinRetries(t)'
        /\ (InRequest(t) /\ InRequest(t)' /\ <<pc[t], loc[t]>>' # <<pc[t], loc[t]>>) =>
              Rank(t)' < Rank(t)
        /\ InRequest(t) => (Rank(t) = 0 <=> pc[t] = "done")
      ]_vars

C18_Witness ==
    \E t \in Threads :
        /\ InRequest(t) /\ pc[t] = "done" /\ loc[t].retries = MaxRetries
        /\ Len(hist[t].outcomes) = MaxRetries
        /\ Len(hist[t].backoffs) = MaxRetries - 1
        /\ loc[t].result = Returned(Response(200, MaxRetries))
        /\ Rank(t) = 0

\* C19: with retries <= 0 a request calls no wait(), sends nothing, sleeps in no
\* backoff and goes from the loop header straight to its end, where the caller
\* gets None: neither a response nor an exception; with retries >= 1 a request
\* that is over has made at least one attempt and never ends that way.
C19_NoAttemptWithoutRetries ==
    \A t \in Threads :
        InRequest(t) =>
            /\ loc[t].retries <= 0 =>
                  /\ hist[t].nwait = 0
                  /\ hist[t].outcomes = <<>>
                  /\ hist[t].backoffs = <<>>
                  /\ pc[t] \in {"for", "done"}
                  /\ pc[t] = "done" => loc[t].result = ReturnedNone
            /\ (loc[t].retries >= 1 /\ pc[t] = "done") =>
                  /\ hist[t].nwait >= 1
                  /\ Len(hist[t].outcomes) >= 1
                  /\ loc[t].result # ReturnedNone

C19_Witness ==
    \E t \in Threads :
        /\ InRequest(t) /\ pc[t] = "done" /\ loc[t].retries = 0
        /\ loc[t].rate_limit = IntVal(MaxRate)
        /\ loc[t].result = ReturnedNone
        /\ hist[t] = NoHist

====
